---- MODULE Spec2Model ----
(***************************************************************************)
(* Model of src/components/VideoMaker.tsx: the React component state, the  *)
(* user handlers, and createVideo as a sequence of awaited engine calls.   *)
(* Strings that are inspected character by character (captions) are        *)
(* sequences of one-character strings.  Durations are in tenths of a       *)
(* second, so 0.2 s is 2 and 120 s is 1200.                                *)
(***************************************************************************)
EXTENDS Integers, Sequences, FiniteSets, TLC

\* ---- bounds of the model ----
MaxItems == 2
MaxLen == 3
MaxEvents == 3
MaxFaults == 2

\* ---- program constants ----
DefaultDurationSec == 30
MinDurationSec == 2
MaxDurationSec == 1200
DefaultResolution == [w |-> 1280, h |-> 720]
DefaultFps == 30
DefaultFontUrl == "https://fonts.gstatic.com/s/roboto/v30/KFOmCnqEu92Fr1Mu4mxP.ttf"
SuccessMessage == "success"
ErrorMessage == "error"
NoFile == "null"
NoUrl == [name |-> "null", run |-> 0]

\* ---- input sets ----
Resolutions == {[w |-> 1280, h |-> 720], [w |-> 1080, h |-> 1920]}
FpsOptions == {30, 60}
FontUrls == {DefaultFontUrl, "https://unreachable.invalid/font.ttf"}
AudioPicks == {NoFile, "track.mp3"}
CaptionInputs == {<< >>, <<" ">>, <<"a", ":">>}
DurationInputs == {0, 1500}
\* in thousandths: the engine reports a fraction in 0..1
ProgressFractions == {0, 495, 1000}
Alphabet == {":", "'", "\\", "a"}

\* ---- pure helpers ----
Max(a, b) == IF a >= b THEN a ELSE b
Min(a, b) == IF a <= b THEN a ELSE b

\* Math.round(n / d) for positive d and non-negative n
RoundDiv(n, d) == (2 * n + d) \div (2 * d)

clamp_noLowerBound(n, min, max) == Min(max, n)
clamp(n, min, max) == Max(min, Min(max, n))

\* String.prototype.replace(/c/g, rep) on a sequence of characters
RECURSIVE ReplaceAll(_, _, _)
ReplaceAll(s, c, rep) ==
    IF s = << >> THEN << >>
    ELSE (IF Head(s) = c THEN rep ELSE <<Head(s)>>) \o ReplaceAll(Tail(s), c, rep)

escapeDrawtext(text) ==
    ReplaceAll(ReplaceAll(ReplaceAll(text, ":", <<"\\", ":">>),
                          "'", <<"\\", "'">>),
               "\\", <<"\\", "\\">>)

\* String.prototype.trim
RECURSIVE TrimLeft(_)
TrimLeft(s) == IF s # << >> /\ Head(s) = " " THEN TrimLeft(Tail(s)) ELSE s
RECURSIVE TrimRight(_)
TrimRight(s) ==
    IF s # << >> /\ s[Len(s)] = " " THEN TrimRight(SubSeq(s, 1, Len(s) - 1)) ELSE s
Trim(s) == TrimRight(TrimLeft(s))

\* ---- names in the engine's virtual filesystem ----
\* A name is <<text, index>>; the extension that extOf appends to an input name
\* is left out, the index alone tells the inputs apart.
FontName == <<"font.ttf", 0>>
InputName(i) == <<"input_", i>>
PartName(i) == <<"part_", i>>
ConcatListName == <<"concat_list.txt", 0>>
OutputVideoName == <<"output_video.mp4", 0>>
AudioInName == <<"audio_in", 0>>
FinalName == <<"final.mp4", 0>>
DotName == <<".", 0>>
DotDotName == <<"..", 0>>

\* order in which listDir reports the entries
NameOrder ==
    <<DotName, DotDotName, FontName>>
    \o [k \in 1..(MaxItems + 1) |-> InputName(k - 1)]
    \o [k \in 1..(MaxItems + 1) |-> PartName(k - 1)]
    \o <<ConcatListName, OutputVideoName, AudioInName, FinalName>>

VARIABLES items, audioFile, isBusy, progress, message, videoUrl,
          resolution, fps, fontUrl, ffmpegRef,
          nextId, fs, stale, runs, trace, text, escaped, events, faults

vars == <<items, audioFile, isBusy, progress, message, videoUrl,
          resolution, fps, fontUrl, ffmpegRef,
          nextId, fs, stale, runs, trace, text, escaped, events, faults>>

NotEscaped == <<"?">>

Init ==
    /\ items = << >>
    /\ audioFile = NoFile
    /\ isBusy = FALSE
    /\ progress = 0
    /\ message = ""
    /\ videoUrl = NoUrl
    /\ resolution = DefaultResolution
    /\ fps = DefaultFps
    /\ fontUrl = DefaultFontUrl
    /\ ffmpegRef = FALSE
    /\ nextId = 1
    /\ fs = {}
    /\ stale = {}
    /\ runs = << >>
    /\ trace = << >>
    /\ text = << >>
    /\ escaped = NotEscaped
    /\ events = 0
    /\ faults = 0


\* ---- user handlers ----

\* one more user event (an edit or a click on create), within the bound on them
UserEvent == events < MaxEvents /\ events' = events + 1


\* a MediaItem without its File, whose content the component never inspects
NewItem(id) == [id |-> id, caption |-> << >>, durationSec |-> DefaultDurationSec]

\* onPickMedia with k selected files; ids are unique (timestamp plus random)
onPickMedia(k) ==
    /\ UserEvent
    /\ Len(items) + k <= MaxItems
    /\ items' = items \o [j \in 1..k |-> NewItem(nextId + j - 1)]
    /\ nextId' = nextId + k
    /\ UNCHANGED <<audioFile, isBusy, progress, message, videoUrl, resolution, fps,
                   fontUrl, ffmpegRef, fs, stale, runs, trace, text, escaped, faults>>

\* the change event fires only when the selection changes
onPickAudio(f) ==
    /\ UserEvent
    /\ f # audioFile
    /\ audioFile' = f
    /\ UNCHANGED <<items, isBusy, progress, message, videoUrl, resolution, fps,
                   fontUrl, ffmpegRef, nextId, fs, stale, runs, trace, text, escaped, faults>>

updateItem_patchesAll(prev, id, field, value) ==
    [k \in 1..Len(prev) |-> [prev[k] EXCEPT ![field] = value]]
\* prev.map((it) => (it.id === id ? { ...it, ...patch } : it)), patch = {field: value}
updateItem(prev, id, field, value) ==
    [k \in 1..Len(prev) |->
        IF prev[k].id = id THEN [prev[k] EXCEPT ![field] = value] ELSE prev[k]]

\* prev.filter((it) => it.id !== id)
removeItem(prev, id) == SelectSeq(prev, LAMBDA it : it.id # id)

ItemIds == {items[k].id : k \in 1..Len(items)}

\* caption input of a listed item; the change event carries a new value
ChangeCaption(id, c) ==
    /\ UserEvent
    /\ id \in ItemIds
    /\ \E k \in 1..Len(items) : items[k].id = id /\ items[k].caption # c
    /\ items' = updateItem(items, id, "caption", c)
    /\ UNCHANGED <<audioFile, isBusy, progress, message, videoUrl, resolution, fps,
                   fontUrl, ffmpegRef, nextId, fs, stale, runs, trace, text, escaped, faults>>

\* duration input of a listed item, a new value n: clamp(Number(value), 0.2, 120)
ChangeDuration(id, n) ==
    /\ UserEvent
    /\ id \in ItemIds
    /\ \E k \in 1..Len(items) : items[k].id = id /\ items[k].durationSec # n
    /\ items' = updateItem(items, id, "durationSec", clamp(n, MinDurationSec, MaxDurationSec))
    /\ UNCHANGED <<audioFile, isBusy, progress, message, videoUrl, resolution, fps,
                   fontUrl, ffmpegRef, nextId, fs, stale, runs, trace, text, escaped, faults>>

\* remove button of a listed item
ClickRemove(id) ==
    /\ UserEvent
    /\ id \in ItemIds
    /\ items' = removeItem(items, id)
    /\ UNCHANGED <<audioFile, isBusy, progress, message, videoUrl, resolution, fps,
                   fontUrl, ffmpegRef, nextId, fs, stale, runs, trace, text, escaped, faults>>

ChangeResolution(res) ==
    /\ UserEvent
    /\ res # resolution
    /\ resolution' = res
    /\ UNCHANGED <<items, audioFile, isBusy, progress, message, videoUrl, fps,
                   fontUrl, ffmpegRef, nextId, fs, stale, runs, trace, text, escaped, faults>>

ChangeFps(f) ==
    /\ UserEvent
    /\ f # fps
    /\ fps' = f
    /\ UNCHANGED <<items, audioFile, isBusy, progress, message, videoUrl, resolution,
                   fontUrl, ffmpegRef, nextId, fs, stale, runs, trace, text, escaped, faults>>

ChangeFontUrl(u) ==
    /\ UserEvent
    /\ u # fontUrl
    /\ fontUrl' = u
    /\ UNCHANGED <<items, audioFile, isBusy, progress, message, videoUrl, resolution,
                   fps, ffmpegRef, nextId, fs, stale, runs, trace, text, escaped, faults>>

\* ---- createVideo ----

canCreate_ignoresItems == ~isBusy
canCreate_ignoresBusy == Len(items) > 0
canCreate == Len(items) > 0 /\ ~isBusy

NoSnap == [items |-> << >>, audioFile |-> NoFile, fontUrl |-> "", fps |-> 0,
           resolution |-> [w |-> 0, h |-> 0]]

\* the values createVideo closes over
Snapshot == [items |-> items, audioFile |-> audioFile, fontUrl |-> fontUrl,
             fps |-> fps, resolution |-> resolution]

\* one invocation of createVideo: program counter, closure and locals
NewRun == [pc |-> "load", snap |-> Snapshot, todo |-> << >>, fontPath |-> "",
           i |-> 0, partNames |-> << >>, finalName |-> FinalName]

\* a returned invocation: its closure and locals are gone
Returned(outcome) == [pc |-> outcome, snap |-> NoSnap, todo |-> << >>, fontPath |-> "",
                      i |-> 0, partNames |-> << >>, finalName |-> FinalName]

Active(r) == runs[r].pc \notin {"Done", "Failed"}
RunIds == 1..Len(runs)

\* an engine or fetch operation succeeds, or fails within the bound on failures
Outcome(ok) ==
    /\ ~ok => faults < MaxFaults
    /\ faults' = IF ok THEN faults ELSE faults + 1

\* a call createVideo awaits (an engine operation or fetchFile), as the callee
\* sees it
Call(op, arg, ok) == [op |-> op, arg |-> arg, ok |-> ok]

videoUrlAtStart_kept == videoUrl
\* setVideoUrl(null) at the start of createVideo
videoUrlAtStart == NoUrl

messageAtStart_kept == message
\* setMessage("") at the start of createVideo
messageAtStart == ""

\* click on the create button (disabled unless canCreate), up to the first await
ClickCreate ==
    /\ canCreate
    /\ UserEvent
    /\ isBusy' = TRUE
    /\ message' = messageAtStart
    /\ progress' = 0
    /\ videoUrl' = videoUrlAtStart
    /\ runs' = Append(runs, NewRun)
    /\ trace' = << >>
    /\ stale' = fs
    /\ UNCHANGED <<items, audioFile, resolution, fps, fontUrl, ffmpegRef, nextId, fs,
                   text, escaped, faults>>

Throw_escapes(r) ==
    /\ runs' = [runs EXCEPT ![r].pc = "rejected"]
    /\ UNCHANGED <<message, isBusy, progress, videoUrl>>
Throw_keepsProgress(r) ==
    /\ runs' = [runs EXCEPT ![r] = Returned("Failed")]
    /\ message' = ErrorMessage
    /\ isBusy' = FALSE
    /\ UNCHANGED <<progress, videoUrl>>
\* catch and finally of createVideo
Throw(r) ==
    /\ runs' = [runs EXCEPT ![r] = Returned("Failed")]
    /\ message' = ErrorMessage
    /\ isBusy' = FALSE
    /\ progress' = 0
    /\ UNCHANGED videoUrl

\* a step of run r that neither returns nor touches the component state
Goto(r, run) ==
    /\ runs' = [runs EXCEPT ![r] = run]
    /\ UNCHANGED <<isBusy, progress, message, videoUrl>>

ensureFFmpegRef_setBeforeLoad(ok) == TRUE
ensureFFmpegRef(ok) == ffmpegRef \/ ok

\* await ensureFFmpeg(): the cached handle, or toBlobURL x3 and load
Load(r, ok) ==
    /\ Outcome(ok)
    /\ runs[r].pc = "load"
    /\ IF ffmpegRef
       THEN /\ ok
            /\ UNCHANGED <<trace, ffmpegRef>>
            /\ Goto(r, [runs[r] EXCEPT !.pc = "listDir"])
       ELSE /\ trace' = Append(trace, Call("load", <<"", 0>>, ok))
            /\ ffmpegRef' = ensureFFmpegRef(ok)
            /\ IF ok THEN Goto(r, [runs[r] EXCEPT !.pc = "listDir"]) ELSE Throw(r)
    /\ UNCHANGED <<items, audioFile, resolution, fps, fontUrl, nextId, fs, stale,
                   text, escaped, events>>

\* what listDir("/") returns
Listing == SelectSeq(NameOrder, LAMBDA n : n \in fs \cup {DotName, DotDotName})

ToDelete_keepsFont(files) ==
    SelectSeq(files, LAMBDA n : n # DotName /\ n # DotDotName /\ n # FontName)
\* the entries of a listing that the reset loop deletes
ToDelete(files) == SelectSeq(files, LAMBDA n : n # DotName /\ n # DotDotName)

NextAfterReset(run) == [run EXCEPT !.pc = "font", !.todo = << >>]

\* await ffmpeg.listDir("/"); a failure skips the reset
ListDir(r, ok) ==
    /\ Outcome(ok)
    /\ runs[r].pc = "listDir"
    /\ trace' = Append(trace, Call("listDir", <<"/", 0>>, ok))
    /\ LET todo == IF ok THEN ToDelete(Listing) ELSE << >>
       IN  IF todo = << >>
           THEN Goto(r, NextAfterReset(runs[r]))
           ELSE Goto(r, [runs[r] EXCEPT !.pc = "deleteFile", !.todo = todo])
    /\ UNCHANGED <<items, audioFile, resolution, fps, fontUrl, ffmpegRef, nextId, fs,
                   stale, text, escaped, events>>

\* await ffmpeg.deleteFile of the next listed entry; a failure is swallowed
DeleteFile(r, ok) ==
    /\ Outcome(ok)
    /\ runs[r].pc = "deleteFile"
    /\ LET n == Head(runs[r].todo)
           rest == Tail(runs[r].todo)
       IN  /\ trace' = Append(trace, Call("deleteFile", n, ok))
           /\ fs' = IF ok THEN fs \ {n} ELSE fs
           /\ stale' = IF ok THEN stale \ {n} ELSE stale
           /\ IF rest = << >>
              THEN Goto(r, NextAfterReset(runs[r]))
              ELSE Goto(r, [runs[r] EXCEPT !.todo = rest])
    /\ UNCHANGED <<items, audioFile, resolution, fps, fontUrl, ffmpegRef, nextId,
                   text, escaped, events>>


\* outcomes of "await ffmpeg.writeFile(name, await fetchFile(src))"
StageOutcomes == {"ok", "fetchFailed", "writeFailed"}

\* the calls made by a stage step: fetchFile(src), and writeFile unless the fetch
\* failed
StageTrace(src, name, outcome) ==
    IF outcome = "fetchFailed" THEN Append(trace, Call("fetchFile", src, FALSE))
    ELSE Append(Append(trace, Call("fetchFile", src, TRUE)),
                Call("writeFile", name, outcome = "ok"))

\* what fetchFile is given: the font URL, the file of an item, the audio file
FontSrc(snap) == <<snap.fontUrl, 0>>
ItemSrc(it) == <<"file of item", it.id>>
AudioSrc(snap) == <<snap.audioFile, 0>>

Written(name, ok) ==
    /\ fs' = IF ok THEN fs \cup {name} ELSE fs
    /\ stale' = IF ok THEN stale \ {name} ELSE stale

\* entry of the for loop: its condition i < items.length
LoopNext_skipsLast(run) ==
    IF run.i < Len(run.snap.items) - 1
    THEN [run EXCEPT !.pc = "writeInput"]
    ELSE [run EXCEPT !.pc = "writeList"]
LoopNext(run) ==
    IF run.i < Len(run.snap.items)
    THEN [run EXCEPT !.pc = "writeInput"]
    ELSE [run EXCEPT !.pc = "writeList"]

\* fetch the font and write it; any failure leaves fontPath empty
WriteFont(r, outcome) ==
    /\ Outcome(outcome = "ok")
    /\ runs[r].pc = "font"
    /\ trace' = StageTrace(FontSrc(runs[r].snap), FontName, outcome)
    /\ Written(FontName, outcome = "ok")
    /\ Goto(r, LoopNext([runs[r] EXCEPT
                           !.fontPath = IF outcome = "ok" THEN "font.ttf" ELSE "",
                           !.i = 0, !.partNames = << >>]))
    /\ UNCHANGED <<items, audioFile, resolution, fps, fontUrl, ffmpegRef, nextId,
                   text, escaped, events>>

\* write the image of item i
WriteInput(r, outcome) ==
    /\ Outcome(outcome = "ok")
    /\ runs[r].pc = "writeInput"
    /\ trace' = StageTrace(ItemSrc(runs[r].snap.items[runs[r].i + 1]), InputName(runs[r].i), outcome)
    /\ Written(InputName(runs[r].i), outcome = "ok")
    /\ IF outcome = "ok" THEN Goto(r, [runs[r] EXCEPT !.pc = "render"]) ELSE Throw(r)
    /\ UNCHANGED <<items, audioFile, resolution, fps, fontUrl, ffmpegRef, nextId,
                   text, escaped, events>>

hasCaption_noTrim(it, fontPath) == Len(it.caption) > 0 /\ fontPath # ""
hasCaption_ignoresFont(it, fontPath) == Len(Trim(it.caption)) > 0
hasCaption(it, fontPath) == Len(Trim(it.caption)) > 0 /\ fontPath # ""

\* the -vf expression: scalePad alone, or scalePad followed by drawtext
scalePad(res) == [w |-> res.w, h |-> res.h]
FilterOf(it, fontPath, res) ==
    IF hasCaption(it, fontPath)
    THEN [scalePad |-> scalePad(res), drawtext |-> TRUE, fontfile |-> fontPath,
          text |-> escapeDrawtext(it.caption),
          fontsize |-> RoundDiv(Min(res.w, res.h), 18), y |-> RoundDiv(res.h, 8)]
    ELSE [scalePad |-> scalePad(res), drawtext |-> FALSE, fontfile |-> "",
          text |-> << >>, fontsize |-> 0, y |-> 0]

RenderArgs_liveFps(run) ==
    LET it == run.snap.items[run.i + 1]
    IN  [kind |-> "render", i |-> run.i, t |-> Max(MinDurationSec, it.durationSec),
         input |-> InputName(run.i), r |-> fps,
         vf |-> FilterOf(it, run.fontPath, run.snap.resolution),
         out |-> PartName(run.i)]
\* the arguments of the render command of item i
RenderArgs(run) ==
    LET it == run.snap.items[run.i + 1]
    IN  [kind |-> "render", i |-> run.i, t |-> Max(MinDurationSec, it.durationSec),
         input |-> InputName(run.i), r |-> run.snap.fps,
         vf |-> FilterOf(it, run.fontPath, run.snap.resolution),
         out |-> PartName(run.i)]

ExecRender_swallowsFailure(r, ok) ==
    /\ Outcome(ok)
    /\ runs[r].pc = "render"
    /\ trace' = Append(trace, Call("exec", RenderArgs(runs[r]), ok))
    /\ Written(PartName(runs[r].i), ok)
    /\ Goto(r, LoopNext([runs[r] EXCEPT
                      !.i = runs[r].i + 1,
                      !.partNames = Append(runs[r].partNames, PartName(runs[r].i))]))
    /\ UNCHANGED <<items, audioFile, resolution, fps, fontUrl, ffmpegRef, nextId,
                   text, escaped, events>>
\* await ffmpeg.exec of the render command of item i, then partNames.push and i++
ExecRender(r, ok) ==
    /\ Outcome(ok)
    /\ runs[r].pc = "render"
    /\ trace' = Append(trace, Call("exec", RenderArgs(runs[r]), ok))
    /\ Written(PartName(runs[r].i), ok)
    /\ IF ok
       THEN Goto(r, LoopNext([runs[r] EXCEPT
                      !.i = runs[r].i + 1,
                      !.partNames = Append(runs[r].partNames, PartName(runs[r].i))]))
       ELSE Throw(r)
    /\ UNCHANGED <<items, audioFile, resolution, fps, fontUrl, ffmpegRef, nextId,
                   text, escaped, events>>

\* write concat_list.txt
WriteConcatList(r, ok) ==
    /\ Outcome(ok)
    /\ runs[r].pc = "writeList"
    /\ trace' = Append(trace, Call("writeFile", ConcatListName, ok))
    /\ Written(ConcatListName, ok)
    /\ IF ok THEN Goto(r, [runs[r] EXCEPT !.pc = "concat"]) ELSE Throw(r)
    /\ UNCHANGED <<items, audioFile, resolution, fps, fontUrl, ffmpegRef, nextId,
                   text, escaped, events>>

ConcatArgs(run) == [kind |-> "concat", input |-> ConcatListName,
                    manifest |-> run.partNames, out |-> OutputVideoName]

\* "if (audioFile)" after the concatenation
AfterConcat(run) ==
    IF run.snap.audioFile # NoFile
    THEN [run EXCEPT !.pc = "writeAudio", !.finalName = FinalName]
    ELSE [run EXCEPT !.pc = "readFile", !.finalName = OutputVideoName]

ExecConcat_swallowsFailure(r, ok) ==
    /\ Outcome(ok)
    /\ runs[r].pc = "concat"
    /\ trace' = Append(trace, Call("exec", ConcatArgs(runs[r]), ok))
    /\ Written(OutputVideoName, ok)
    /\ Goto(r, AfterConcat(runs[r]))
    /\ UNCHANGED <<items, audioFile, resolution, fps, fontUrl, ffmpegRef, nextId,
                   text, escaped, events>>
\* await ffmpeg.exec of the concat command
ExecConcat(r, ok) ==
    /\ Outcome(ok)
    /\ runs[r].pc = "concat"
    /\ trace' = Append(trace, Call("exec", ConcatArgs(runs[r]), ok))
    /\ Written(OutputVideoName, ok)
    /\ IF ok THEN Goto(r, AfterConcat(runs[r])) ELSE Throw(r)
    /\ UNCHANGED <<items, audioFile, resolution, fps, fontUrl, ffmpegRef, nextId,
                   text, escaped, events>>

\* write audio_in
WriteAudio(r, outcome) ==
    /\ Outcome(outcome = "ok")
    /\ runs[r].pc = "writeAudio"
    /\ trace' = StageTrace(AudioSrc(runs[r].snap), AudioInName, outcome)
    /\ Written(AudioInName, outcome = "ok")
    /\ IF outcome = "ok" THEN Goto(r, [runs[r] EXCEPT !.pc = "mux"]) ELSE Throw(r)
    /\ UNCHANGED <<items, audioFile, resolution, fps, fontUrl, ffmpegRef, nextId,
                   text, escaped, events>>

MuxArgs(run) == [kind |-> "mux", video |-> OutputVideoName, audio |-> AudioInName,
                 out |-> run.finalName]

MuxFallbackName_unchanged(run) == run.finalName
\* the catch around the mux command
MuxFallbackName(run) == OutputVideoName

\* await ffmpeg.exec of the mux command; a failure falls back to the video only
ExecMux(r, ok) ==
    /\ Outcome(ok)
    /\ runs[r].pc = "mux"
    /\ trace' = Append(trace, Call("exec", MuxArgs(runs[r]), ok))
    /\ Written(runs[r].finalName, ok)
    /\ Goto(r, [runs[r] EXCEPT
                  !.pc = "readFile",
                  !.finalName = IF ok THEN runs[r].finalName ELSE MuxFallbackName(runs[r])])
    /\ UNCHANGED <<items, audioFile, resolution, fps, fontUrl, ffmpegRef, nextId,
                   text, escaped, events>>

\* await ffmpeg.readFile(finalName), then publish; the engine cannot read a missing file
ReadFile(r, ok) ==
    /\ Outcome(ok)
    /\ runs[r].pc = "readFile"
    /\ ok => runs[r].finalName \in fs
    /\ trace' = Append(trace, Call("readFile", runs[r].finalName, ok))
    /\ IF ok
       THEN /\ videoUrl' = [name |-> runs[r].finalName[1], run |-> r]
            /\ message' = SuccessMessage
            /\ isBusy' = FALSE
            /\ progress' = 0
            /\ runs' = [runs EXCEPT ![r] = Returned("Done")]
       ELSE Throw(r)
    /\ UNCHANGED <<items, audioFile, resolution, fps, fontUrl, ffmpegRef, nextId, fs,
                   stale, text, escaped, events>>

\* the "progress" listener registered in ensureFFmpeg, fired while an exec is pending
OnProgress(r, fraction) ==
    /\ ffmpegRef
    /\ runs[r].pc \in {"render", "concat", "mux"}
    /\ progress' = RoundDiv(fraction * 100, 1000)
    /\ UNCHANGED <<items, audioFile, isBusy, message, videoUrl, resolution, fps, fontUrl,
                   ffmpegRef, nextId, fs, stale, runs, trace, text, escaped, events, faults>>

Next ==
    \/ \E k \in 1..MaxItems : onPickMedia(k)
    \/ \E f \in AudioPicks : onPickAudio(f)
    \/ \E id \in ItemIds, c \in CaptionInputs : ChangeCaption(id, c)
    \/ \E id \in ItemIds, n \in DurationInputs : ChangeDuration(id, n)
    \/ \E id \in ItemIds : ClickRemove(id)
    \/ \E res \in Resolutions : ChangeResolution(res)
    \/ \E f \in FpsOptions : ChangeFps(f)
    \/ \E u \in FontUrls : ChangeFontUrl(u)
    \/ ClickCreate
    \/ \E r \in RunIds, ok \in BOOLEAN : Load(r, ok)
    \/ \E r \in RunIds, ok \in BOOLEAN : ListDir(r, ok)
    \/ \E r \in RunIds, ok \in BOOLEAN : DeleteFile(r, ok)
    \/ \E r \in RunIds, o \in StageOutcomes : WriteFont(r, o)
    \/ \E r \in RunIds, o \in StageOutcomes : WriteInput(r, o)
    \/ \E r \in RunIds, ok \in BOOLEAN : ExecRender(r, ok)
    \/ \E r \in RunIds, ok \in BOOLEAN : WriteConcatList(r, ok)
    \/ \E r \in RunIds, ok \in BOOLEAN : ExecConcat(r, ok)
    \/ \E r \in RunIds, o \in StageOutcomes : WriteAudio(r, o)
    \/ \E r \in RunIds, ok \in BOOLEAN : ExecMux(r, ok)
    \/ \E r \in RunIds, ok \in BOOLEAN : ReadFile(r, ok)
    \/ \E r \in RunIds, p \in ProgressFractions : OnProgress(r, p)

Spec == Init /\ [][Next]_vars

\* a step of createVideo: the awaited operation settles and the code runs on to
\* the next await or to the return
RunStep ==
    \E r \in RunIds :
        \/ \E ok \in BOOLEAN : Load(r, ok)
        \/ \E ok \in BOOLEAN : ListDir(r, ok)
        \/ \E ok \in BOOLEAN : DeleteFile(r, ok)
        \/ \E o \in StageOutcomes : WriteFont(r, o)
        \/ \E o \in StageOutcomes : WriteInput(r, o)
        \/ \E ok \in BOOLEAN : ExecRender(r, ok)
        \/ \E ok \in BOOLEAN : WriteConcatList(r, ok)
        \/ \E ok \in BOOLEAN : ExecConcat(r, ok)
        \/ \E o \in StageOutcomes : WriteAudio(r, o)
        \/ \E ok \in BOOLEAN : ExecMux(r, ok)
        \/ \E ok \in BOOLEAN : ReadFile(r, ok)

\* the user handlers (files picked one at a time), the progress listener and
\* the steps of createVideo
NextLive ==
    \/ onPickMedia(1)
    \/ \E f \in AudioPicks : onPickAudio(f)
    \/ \E id \in ItemIds, c \in CaptionInputs : ChangeCaption(id, c)
    \/ \E id \in ItemIds, n \in DurationInputs : ChangeDuration(id, n)
    \/ \E id \in ItemIds : ClickRemove(id)
    \/ \E res \in Resolutions : ChangeResolution(res)
    \/ \E f \in FpsOptions : ChangeFps(f)
    \/ \E u \in FontUrls : ChangeFontUrl(u)
    \/ ClickCreate
    \/ \E r \in RunIds, p \in ProgressFractions : OnProgress(r, p)
    \/ RunStep

\* every awaited operation eventually resolves or rejects, and the continuation
\* of a settled promise is run by the event loop
SpecLive == Init /\ [][NextLive]_vars /\ WF_vars(RunStep)

\* ---- escapeDrawtext on its own: every caption up to MaxLen characters ----

RECURSIVE SeqsUpTo(_, _)
SeqsUpTo(S, n) ==
    IF n = 0 THEN {<< >>}
    ELSE LET shorter == SeqsUpTo(S, n - 1)
         IN  shorter \cup {Append(s, c) : s \in {t \in shorter : Len(t) = n - 1}, c \in S}

InitEscape ==
    /\ items = << >>
    /\ audioFile = NoFile
    /\ isBusy = FALSE
    /\ progress = 0
    /\ message = ""
    /\ videoUrl = NoUrl
    /\ resolution = DefaultResolution
    /\ fps = DefaultFps
    /\ fontUrl = DefaultFontUrl
    /\ ffmpegRef = FALSE
    /\ nextId = 1
    /\ fs = {}
    /\ stale = {}
    /\ runs = << >>
    /\ trace = << >>
    /\ text \in SeqsUpTo(Alphabet, MaxLen)
    /\ escaped = NotEscaped
    /\ events = 0
    /\ faults = 0

\* the call escapeDrawtext(it.caption) made while the filter is built
EscapeCaption ==
    /\ escaped = NotEscaped
    /\ escaped' = escapeDrawtext(text)
    /\ UNCHANGED <<items, audioFile, isBusy, progress, message, videoUrl, resolution, fps,
                   fontUrl, ffmpegRef, nextId, fs, stale, runs, trace, text, events, faults>>

NextEscape == EscapeCaption

SpecEscape == InitEscape /\ [][NextEscape]_vars

\* ---- properties ----

LastRun == runs[Len(runs)]
NoneActive == \A r \in RunIds : ~Active(r)
IsExec(c, kind) == c.op = "exec" /\ c.arg.kind = kind

\* C1: while the item list is empty no run starts, and with no run in progress
\* nothing reaches the engine (no load, no list, remove, stage or execute); every
\* run in progress was started over a non-empty item list.
C1_EmptyListRejected ==
    /\ [](\A r \in RunIds : Active(r) => Len(runs[r].snap.items) > 0)
    /\ [][Len(items) = 0 =>
            /\ Len(runs') = Len(runs)
            /\ NoneActive => (ffmpegRef' = ffmpegRef /\ fs' = fs /\ trace' = trace)]_vars

C1_Witness ==
    /\ Len(items) = 0
    /\ Len(runs) >= 1
    /\ NoneActive
    /\ ffmpegRef

\* C2: at most one run is in progress at any time, and the busy flag is set
\* exactly while one is.
C2_AtMostOneRun ==
    /\ Cardinality({r \in RunIds : Active(r)}) <= 1
    /\ isBusy <=> (\E r \in RunIds : Active(r))

C2_Witness ==
    /\ Len(runs) = 1
    /\ Active(1)
    /\ Len(items) > 0
    /\ LastRun.pc = "render"


\* the latest run made a mux attempt and it failed
MuxFailed == \E k \in 1..Len(trace) : IsExec(trace[k], "mux") /\ ~trace[k].ok
LastCall == trace[Len(trace)]

\* C3 as stated: once the mux attempt of a run has failed, the run does not
\* enter Failed.
C3_MuxFailureNeverFails == MuxFailed => LastRun.pc # "Failed"

\* C3 amended: a failed mux attempt is swallowed; the run goes on to read
\* output_video.mp4, ends in Done with that file published as the artifact and
\* the success message, and ends in Failed only if that final read fails.
C3_MuxFallback ==
    MuxFailed =>
        /\ LastRun.pc \in {"readFile", "Done", "Failed"}
        /\ LastRun.pc = "readFile" => LastRun.finalName = OutputVideoName
        /\ LastRun.pc = "Done" =>
              /\ videoUrl = [name |-> "output_video.mp4", run |-> Len(runs)]
              /\ message = SuccessMessage
              /\ LastCall = Call("readFile", OutputVideoName, TRUE)
        /\ LastRun.pc = "Failed" => LastCall = Call("readFile", OutputVideoName, FALSE)

C3_Witness ==
    /\ MuxFailed
    /\ LastRun.pc = "Done"
    /\ videoUrl.name = "output_video.mp4"

\* C4: a failed render is the last engine call of its run: no later render, no
\* concat, no mux and no retry follow it, and the run is Failed with no artifact
\* and the error message.
C4_RenderFailureAborts ==
    \A k \in 1..Len(trace) :
        (IsExec(trace[k], "render") /\ ~trace[k].ok) =>
            /\ k = Len(trace)
            /\ LastRun.pc = "Failed"
            /\ videoUrl = NoUrl
            /\ message = ErrorMessage

C4_Witness ==
    /\ Len(trace) > 0
    /\ IsExec(LastCall, "render")
    /\ ~LastCall.ok
    /\ LastCall.arg.i = 0
    /\ Len(items) = 2

\* the execute calls of the latest run, in order, as <<kind, item index>>
ExecCalls == SelectSeq(trace, LAMBDA c : c.op = "exec")
ExecKinds ==
    [k \in 1..Len(ExecCalls) |->
        <<ExecCalls[k].arg.kind,
          IF ExecCalls[k].arg.kind = "render" THEN ExecCalls[k].arg.i ELSE 0>>]

\* the execute calls a successful run over a snapshot makes
ExpectedExecs(snap) ==
    [k \in 1..Len(snap.items) |-> <<"render", k - 1>>]
    \o <<<<"concat", 0>>>>
    \o (IF snap.audioFile # NoFile THEN <<<<"mux", 0>>>> ELSE << >>)

IsPrefix(s, t) == Len(s) <= Len(t) /\ s = SubSeq(t, 1, Len(s))

\* C5: in a run in progress the execute calls made so far are a prefix of render
\* 0, ..., render N-1, concat, mux-if-audio, each before the last having
\* succeeded, and when a run reaches Done its execute calls are exactly that
\* sequence with every render and the concat successful.
C5_ExecOrder ==
    /\ [](\A r \in RunIds : Active(r) =>
            /\ IsPrefix(ExecKinds, ExpectedExecs(runs[r].snap))
            /\ \A k \in 1..(Len(ExecCalls) - 1) : ExecCalls[k].ok)
    /\ [][\A r \in RunIds : (runs[r].pc # "Done" /\ runs'[r].pc = "Done") =>
            /\ ExecKinds' = ExpectedExecs(runs[r].snap)
            /\ \A k \in 1..Len(ExecCalls') :
                  ExecCalls'[k].arg.kind # "mux" => ExecCalls'[k].ok]_vars

C5_Witness ==
    /\ Len(runs) > 0
    /\ LastRun.pc = "Done"
    /\ ExecKinds = <<<<"render", 0>>, <<"render", 1>>, <<"concat", 0>>, <<"mux", 0>>>>

\* C6: when the latest run has ended in Failed the artifact reference is null
\* and the error message is shown, also after an earlier run published one.
C6_FailedClearsArtifact ==
    (Len(runs) > 0 /\ LastRun.pc = "Failed") =>
        (videoUrl = NoUrl /\ message = ErrorMessage)

C6_Witness ==
    /\ Len(runs) = 2
    /\ runs[1].pc = "Done"
    /\ runs[2].pc = "Failed"

PastFont(run) == run.pc \in {"writeInput", "render", "writeList", "concat", "writeAudio",
                             "mux", "readFile"}

\* C7: a failed font fetch or write never moves the run to Failed; the run goes
\* on to the items, and every render of a run without a font uses a filter
\* without the drawtext stage.
C7_FontFailureTolerated ==
    /\ [](\A r \in RunIds : (PastFont(runs[r]) /\ runs[r].fontPath = "") =>
            /\ \A k \in 1..Len(trace) :
                  IsExec(trace[k], "render") => ~trace[k].arg.vf.drawtext
            /\ runs[r].pc = "render" => ~RenderArgs(runs[r]).vf.drawtext)
    /\ [][\A r \in RunIds : runs[r].pc = "font" =>
            runs'[r].pc \in {"font", "writeInput", "writeList"}]_vars

C7_Witness ==
    \E r \in RunIds :
        /\ PastFont(runs[r])
        /\ runs[r].fontPath = ""
        /\ \E k \in 1..Len(trace) :
              /\ IsExec(trace[k], "render")
              /\ trace[k].ok
              /\ Len(Trim(runs[r].snap.items[trace[k].arg.i + 1].caption)) > 0


\* reading an escaped string by the rule that a backslash makes the next
\* character literal
RECURSIVE Unescape(_)
Unescape(s) ==
    IF s = << >> THEN << >>
    ELSE IF Head(s) = "\\"
         THEN (IF Len(s) >= 2 THEN <<s[2]>> \o Unescape(SubSeq(s, 3, Len(s))) ELSE << >>)
         ELSE <<Head(s)>> \o Unescape(Tail(s))

\* some ':' or "'" of s is not made literal by a backslash before it
RECURSIVE HasBareSpecial(_)
HasBareSpecial(s) ==
    IF s = << >> THEN FALSE
    ELSE IF Head(s) = "\\" THEN (Len(s) >= 2 /\ HasBareSpecial(SubSeq(s, 3, Len(s))))
         ELSE Head(s) \in {":", "'"} \/ HasBareSpecial(Tail(s))

\* C8: un-escaping escapeDrawtext(text) gives text back, and the escaped form
\* has no ':' or "'" that is not preceded by an escaping backslash.
C8_EscapeRoundTrip ==
    escaped # NotEscaped =>
        (Unescape(escaped) = text /\ ~HasBareSpecial(escaped))

ListFailed == \E k \in 1..Len(trace) : trace[k].op = "listDir" /\ ~trace[k].ok
DeleteFailed(n) == \E k \in 1..Len(trace) : trace[k] = Call("deleteFile", n, FALSE)

\* C9 as stated: when a run is about to stage its first file, no entry left by
\* an earlier run is in the namespace.
C9_ClearedBeforeStaging ==
    \A r \in RunIds : runs[r].pc = "font" => stale = {}

\* C9 amended: when a run is about to stage its first file, an entry left by an
\* earlier run is in the namespace only if the listing failed or the removal of
\* that entry failed; with no such failure the namespace is empty.
C9_ClearedUnlessRemovalFailed ==
    \A r \in RunIds : runs[r].pc = "font" =>
        /\ \A n \in stale : ListFailed \/ DeleteFailed(n)
        /\ stale = fs

C9_Witness ==
    /\ Len(runs) = 2
    /\ LastRun.pc = "font"
    /\ fs = {}
    /\ \E k \in 1..Len(trace) : trace[k] = Call("deleteFile", OutputVideoName, TRUE)

\* C10: a failed load is the only engine call of its run, the run is Failed and
\* the handle stays unset; a run that finds the handle unset invokes load; once
\* the handle is set it stays set and load is not invoked again.
C10_LoadOnceOrFail ==
    /\ [](\A k \in 1..Len(trace) : (trace[k].op = "load" /\ ~trace[k].ok) =>
            /\ Len(trace) = 1
            /\ LastRun.pc = "Failed"
            /\ ~ffmpegRef
            /\ fs = stale)
    /\ [][\A r \in RunIds : (runs[r].pc = "load" /\ runs'[r].pc # "load") =>
            IF ffmpegRef
            THEN trace' = trace /\ ffmpegRef'
            ELSE \E ok \in BOOLEAN :
                    /\ trace' = Append(trace, Call("load", <<"", 0>>, ok))
                    /\ ffmpegRef' = ok]_vars
    /\ [][ffmpegRef =>
            /\ ffmpegRef'
            /\ ~(Len(trace') > Len(trace) /\ trace'[Len(trace')].op = "load")]_vars

C10_Witness ==
    /\ Len(runs) = 2
    /\ runs[1].pc = "Failed"
    /\ Len(trace) > 1
    /\ trace[1] = Call("load", <<"", 0>>, TRUE)
    /\ faults = 1

\* C11: under SpecLive, whenever a run is in progress a state follows in which
\* every run that was started is in Done or in Failed; a run that has reached
\* Done or Failed stays there; and no user event (an edit or a click) changes
\* the position or the locals of a run.
C11_RunTerminates ==
    /\ (\E r \in RunIds : Active(r)) ~> (\A r \in RunIds : runs[r].pc \in {"Done", "Failed"})
    /\ [][\A r \in RunIds : ~Active(r) => runs'[r] = runs[r]]_vars
    /\ [][events' # events => \A r \in RunIds : runs'[r] = runs[r]]_vars

C11_Witness ==
    /\ Len(runs) = 1
    /\ runs[1].pc = "Done"
    /\ Len(items) = 0
    /\ events = MaxEvents

\* escaping in backslash-first order: every backslash, then every quote, then
\* every colon gets one backslash before it
ReferenceEscape(s) ==
    ReplaceAll(ReplaceAll(ReplaceAll(s, "\\", <<"\\", "\\">>),
                          "'", <<"\\", "'">>),
               ":", <<"\\", ":">>)

\* C12: escapeDrawtext(text) is the backslash-first escaping of text: each
\* backslash, quote and colon of text preceded by exactly one inserted
\* backslash, every other character unchanged.
C12_EscapeIsBackslashFirst ==
    escaped # NotEscaped => escaped = ReferenceEscape(text)

\* the font was fetched and written in the latest run
FontStaged == \E k \in 1..Len(trace) : trace[k] = Call("writeFile", FontName, TRUE)

\* the scale/pad/setsar expression alone
PlainFilter(res) ==
    [scalePad |-> [w |-> res.w, h |-> res.h], drawtext |-> FALSE, fontfile |-> "",
     text |-> << >>, fontsize |-> 0, y |-> 0]

DrawtextIffCaptionAndFont(vf, it, res) ==
    /\ vf.drawtext <=> (Len(Trim(it.caption)) > 0 /\ FontStaged)
    /\ vf.scalePad = [w |-> res.w, h |-> res.h]
    /\ ~vf.drawtext => vf = PlainFilter(res)
    /\ vf.drawtext => vf.fontfile = "font.ttf"

\* C13: the filter of every render command a run has issued, and of the one it
\* is about to issue, has the drawtext stage exactly when the item's caption is
\* non-empty after trimming and the font was staged in this run; without the
\* stage it is the scale/pad/setsar expression alone.
C13_DrawtextIffCaptionAndFont ==
    \A r \in RunIds : Active(r) =>
        /\ \A k \in 1..Len(trace) : IsExec(trace[k], "render") =>
              DrawtextIffCaptionAndFont(trace[k].arg.vf,
                                        runs[r].snap.items[trace[k].arg.i + 1],
                                        runs[r].snap.resolution)
        /\ runs[r].pc = "render" =>
              DrawtextIffCaptionAndFont(RenderArgs(runs[r]).vf,
                                        runs[r].snap.items[runs[r].i + 1],
                                        runs[r].snap.resolution)

C13_Witness ==
    /\ Len(trace) > 2
    /\ FontStaged
    /\ \E j, k \in 1..Len(trace) :
          /\ IsExec(trace[j], "render") /\ trace[j].arg.vf.drawtext
          /\ IsExec(trace[k], "render") /\ ~trace[k].arg.vf.drawtext

MuxSucceeded == \E k \in 1..Len(trace) : IsExec(trace[k], "mux") /\ trace[k].ok

\* a successful execute of the latest run, of the given kind, wrote the file
ExecWrote(kind, name) ==
    \E k \in 1..Len(trace) :
        IsExec(trace[k], kind) /\ trace[k].ok /\ trace[k].arg.out = name

\* C14: every clip named in the manifest of a concat command was written by an
\* earlier successful render of the same run; and when a run is Done, the file
\* it read as the artifact was written by a successful execute of that run (the
\* mux if it succeeded, else the concat) and is not an entry left by an earlier
\* run, also when the listing or a removal failed and such entries remained.
C14_ResultFromThisRun ==
    /\ \A k \in 1..Len(trace) : IsExec(trace[k], "concat") =>
          \A p \in 1..Len(trace[k].arg.manifest) :
              \E j \in 1..(k - 1) :
                  /\ IsExec(trace[j], "render")
                  /\ trace[j].ok
                  /\ trace[j].arg.out = trace[k].arg.manifest[p]
    /\ (Len(runs) > 0 /\ LastRun.pc = "Done") =>
          /\ LastCall.op = "readFile"
          /\ LastCall.ok
          /\ LastCall.arg \notin stale
          /\ IF MuxSucceeded
             THEN LastCall.arg = FinalName /\ ExecWrote("mux", FinalName)
             ELSE LastCall.arg = OutputVideoName /\ ExecWrote("concat", OutputVideoName)

C14_Witness ==
    /\ Len(runs) = 2
    /\ runs[1].pc = "Done"
    /\ runs[2].pc = "Done"
    /\ ListFailed

\* the fetchFile calls of the latest run, in order
Fetches == SelectSeq(trace, LAMBDA c : c.op = "fetchFile")

\* the sources a successful run over a snapshot fetches
ExpectedFetches(snap) ==
    <<FontSrc(snap)>>
    \o [k \in 1..Len(snap.items) |-> ItemSrc(snap.items[k])]
    \o (IF snap.audioFile # NoFile THEN <<AudioSrc(snap)>> ELSE << >>)

\* a render command as the snapshot determines it
RenderMatches(arg, snap) ==
    LET it == snap.items[arg.i + 1]
    IN  /\ arg.t = Max(MinDurationSec, it.durationSec)
        /\ arg.r = snap.fps
        /\ arg.vf.scalePad = [w |-> snap.resolution.w, h |-> snap.resolution.h]
        /\ arg.vf.drawtext =>
              /\ arg.vf.text = escapeDrawtext(it.caption)
              /\ arg.vf.fontsize = RoundDiv(Min(snap.resolution.w, snap.resolution.h), 18)
              /\ arg.vf.y = RoundDiv(snap.resolution.h, 8)
        /\ ~arg.vf.drawtext => (Len(Trim(it.caption)) = 0 \/ ~FontStaged)

\* C15: while a run is in progress its snapshot does not change, whatever the
\* user edits; the font, the item files and the audio it has fetched are those
\* of the snapshot, in the snapshot's order; its execute calls are those of the
\* snapshot's items and audio; and every render command carries the duration,
\* caption, frame rate and resolution of the snapshot.
C15_RunsOnSnapshot ==
    /\ [](\A r \in RunIds : Active(r) =>
            /\ IsPrefix([k \in 1..Len(Fetches) |-> Fetches[k].arg],
                        ExpectedFetches(runs[r].snap))
            /\ IsPrefix(ExecKinds, ExpectedExecs(runs[r].snap))
            /\ \A k \in 1..Len(trace) :
                  IsExec(trace[k], "render") => RenderMatches(trace[k].arg, runs[r].snap)
            /\ runs[r].pc = "render" => RenderMatches(RenderArgs(runs[r]), runs[r].snap))
    /\ [][\A r \in RunIds :
            (Active(r) /\ runs'[r].pc \notin {"Done", "Failed"}) =>
                runs'[r].snap = runs[r].snap]_vars

C15_Witness ==
    \E r \in RunIds :
        /\ Active(r)
        /\ runs[r].snap.items # items
        /\ \E k \in 1..Len(trace) : IsExec(trace[k], "render") /\ trace[k].ok

\* the integer percentages the listener can display
Percentages == {RoundDiv(f * 100, 1000) : f \in ProgressFractions}

\* C16: with no run in progress (before the first run, and after a run has
\* ended in Done or Failed, whatever progress callbacks were interleaved with
\* its steps) the displayed progress is 0 and the busy flag is false; while a
\* run is in progress the displayed value is 0 or the integer percentage of the
\* latest callback, within 0..100.
C16_ProgressResets ==
    /\ progress \in 0..100
    /\ progress \in {0} \cup Percentages
    /\ NoneActive => (progress = 0 /\ ~isBusy)
    /\ ~NoneActive => isBusy

C16_Witness ==
    /\ Len(runs) > 0
    /\ LastRun.pc = "Failed"
    /\ IsExec(LastCall, "concat")
    /\ progress = 0
    /\ ~isBusy

\* s without its k-th element
Without(s, k) == SubSeq(s, 1, k - 1) \o SubSeq(s, k + 1, Len(s))

InRange(d) == MinDurationSec <= d /\ d <= MaxDurationSec

\* C18: the duration of every listed item, and of every item of the snapshot
\* of a run in progress, is within [0.2 s, 120 s] (3 s when added, clamped at
\* every edit); the -t argument of every render command issued or about to be
\* issued is max(0.2 s, duration of its item).
C18_DurationInRange ==
    /\ \A k \in 1..Len(items) : InRange(items[k].durationSec)
    /\ \A r \in RunIds : Active(r) =>
          /\ \A k \in 1..Len(runs[r].snap.items) : InRange(runs[r].snap.items[k].durationSec)
          /\ \A k \in 1..Len(trace) : IsExec(trace[k], "render") =>
                trace[k].arg.t = Max(MinDurationSec,
                                     runs[r].snap.items[trace[k].arg.i + 1].durationSec)
          /\ runs[r].pc = "render" =>
                RenderArgs(runs[r]).t = Max(MinDurationSec,
                                            runs[r].snap.items[runs[r].i + 1].durationSec)

C18_Witness ==
    /\ Len(items) = 1
    /\ items[1].durationSec = MinDurationSec
    /\ \E k \in 1..Len(trace) :
          IsExec(trace[k], "render") /\ trace[k].ok /\ trace[k].arg.t = MinDurationSec

\* C19: while a run is in progress the artifact reference is null and the
\* message is empty; once the latest run has ended, either the artifact is the
\* one that run published and the success message is shown, or there is no
\* artifact and the error message is shown; before the first run there is
\* neither artifact nor message.
C19_ArtifactAgreesWithStatus ==
    /\ (\E r \in RunIds : Active(r)) => (videoUrl = NoUrl /\ message = "")
    /\ (Len(runs) > 0 /\ NoneActive) =>
          \/ /\ LastRun.pc = "Done"
             /\ videoUrl # NoUrl
             /\ videoUrl.run = Len(runs)
             /\ message = SuccessMessage
          \/ /\ LastRun.pc = "Failed"
             /\ videoUrl = NoUrl
             /\ message = ErrorMessage
    /\ Len(runs) = 0 => (videoUrl = NoUrl /\ message = "")

C19_Witness ==
    /\ Len(runs) = 2
    /\ runs[1].pc = "Failed"
    /\ runs[2].pc = "Done"
    /\ videoUrl.run = 2

====
